---- MODULE Spec2Model ----
(***************************************************************************)
(* A model of tools/palmdev-prep.c: the SDK key canonicaliser, the root    *)
(* lists built by analyze_palmdev_tree, the default-SDK selection of main  *)
(* and the specs text written by write_specs.                              *)
(*                                                                         *)
(* C strings are sequences of byte values (so that tolower, strcmp,        *)
(* strrchr, strspn and isspace act on them as in C); the null pointer is   *)
(* NULL, which no string equals since no C string holds a NUL byte.        *)
(***************************************************************************)
EXTENDS Integers, Sequences, FiniteSets, TLC

VARIABLES
  fs,                 \* the filesystem: directory path -> what is there
  pc,                 \* position in main's else-branch (lines 404-475)
  calls,              \* prefixes analyze_palmdev_tree was called with, in order
  nargs,              \* command-line directories consumed so far (optind)
  sdk_root_list,      \* line 131, head first
  generic_root_list,  \* line 131, head first
  default_sdk_name,   \* main's default_sdk_name (optarg of -d) or NULL
  default_sdk,        \* main's default_sdk: index into sdk_root_list, 0 = NULL
  warned,             \* the warnings issued so far
  out,                \* the text written by write_specs, as a token sequence
  kname,              \* canonical_key study: the directory name given
  khist               \* canonical_key study: <<d, key(d), key(key(d))>>

vars == <<fs, pc, calls, nargs, sdk_root_list, generic_root_list,
          default_sdk_name, default_sdk, warned, out, kname, khist>>

(***************************************************************************)
(* Bounds.                                                                 *)
(***************************************************************************)
MaxTokens == 4     \* pieces a studied directory name is built from
MaxEntries == 2    \* directory entries readdir returns per base directory
MaxArgs == 1       \* directories given on the command line

(***************************************************************************)
(* Strings.                                                                *)
(***************************************************************************)
NULL == <<0>>

s_palmos == <<112, 97, 108, 109, 111, 115>>          \* "palmos"
s_sdk == <<115, 100, 107, 45>>                       \* "sdk-"
s_dot0 == <<46, 48>>                                 \* ".0"
s_digits == {48, 49, 50, 51, 52, 53, 54, 55, 56, 57} \* "0123456789"
s_include == <<105, 110, 99, 108, 117, 100, 101>>    \* "include"
s_Incs == <<73, 110, 99, 115>>                       \* "Incs"
s_lib == <<108, 105, 98>>                            \* "lib"
s_GCC_Libraries == <<71, 67, 67, 32, 76, 105, 98, 114, 97, 114, 105, 101, 115>>
s_m68k == <<47, 109, 54, 56, 107, 45, 112, 97, 108, 109, 111, 115, 45, 99, 111, 102, 102>>
s_slash == <<47>>                                    \* "/"

\* <ctype.h> tolower in the C locale
tolower(c) == IF c >= 65 /\ c <= 90 THEN c + 32 ELSE c

\* <ctype.h> isspace in the C locale: space, \t \n \v \f \r
isspace(c) == c = 32 \/ (c >= 9 /\ c <= 13)

\* <string.h> strcmp on unsigned bytes: the sign of the first difference
RECURSIVE strcmp(_, _)
strcmp(a, b) ==
  IF a = <<>> /\ b = <<>> THEN 0
  ELSE IF a = <<>> THEN -1
  ELSE IF b = <<>> THEN 1
  ELSE IF Head(a) < Head(b) THEN -1
  ELSE IF Head(a) > Head(b) THEN 1
  ELSE strcmp(Tail(a), Tail(b))

\* <string.h> strrchr: the index of the last occurrence of c in s, 0 if none
RECURSIVE strrchr_from(_, _, _)
strrchr_from(s, c, i) ==
  IF i = 0 THEN 0
  ELSE IF s[i] = c THEN i
  ELSE strrchr_from(s, c, i - 1)

strrchr(s, c) == strrchr_from(s, c, Len(s))

\* <string.h> strspn: the length of the longest prefix of s made of bytes of accept
RECURSIVE strspn(_, _)
strspn(s, accept) ==
  IF s = <<>> \/ Head(s) \notin accept THEN 0
  ELSE 1 + strspn(Tail(s), accept)

\* the string from index i on (name += i - 1)
From(s, i) == SubSeq(s, i, Len(s))

\* lines 36-42
RECURSIVE matches(_, _)
matches(prefix, str) ==
  IF prefix = <<>> THEN TRUE
  ELSE IF str /= <<>> /\ tolower(Head(str)) = Head(prefix)
       THEN matches(Tail(prefix), Tail(str))
       ELSE FALSE

\* <string.h> strchr: the index of the first occurrence of c in s, 0 if none
RECURSIVE strchr_from(_, _, _)
strchr_from(s, c, i) ==
  IF i > Len(s) THEN 0
  ELSE IF s[i] = c THEN i
  ELSE strchr_from(s, c, i + 1)

\* truncate_dot0 with strchr for strrchr
truncate_first_dot(key) ==
  LET dot == strchr_from(key, 46, 1)
  IN IF dot /= 0 /\ From(key, dot) = s_dot0
     THEN SubSeq(key, 1, dot - 1)
     ELSE key

\* truncate_dot0 repeated while the key ends in ".0"
RECURSIVE truncate_all_dot0(_)
truncate_all_dot0(key) ==
  LET dot == strrchr(key, 46)
  IN IF dot /= 0 /\ From(key, dot) = s_dot0
     THEN truncate_all_dot0(SubSeq(key, 1, dot - 1))
     ELSE key

\* lines 59-61: truncate at the last '.' when what follows it is exactly "0"
truncate_dot0(key) ==
  LET dot == strrchr(key, 46)
  IN IF dot /= 0 /\ From(key, dot) = s_dot0
     THEN SubSeq(key, 1, dot - 1)
     ELSE key

\* lines 47-64
canonical_key(name) ==
  LET n1 == IF matches(s_palmos, name) THEN From(name, 7) ELSE name
      n2 == IF matches(s_sdk, n1) THEN From(n1, 5) ELSE n1
  IN truncate_dot0(n2)

(***************************************************************************)
(* The study of canonical_key as a pure function: a directory name is      *)
(* drawn from the concatenations of at most MaxTokens pieces, and          *)
(* canonical_key is applied to it, then to its own result.                 *)
(***************************************************************************)
KeyTokens ==
  { s_palmos,
    <<80, 97, 108, 109, 79, 83>>,     \* "PalmOS"
    s_sdk,
    <<83, 68, 75, 45>>,               \* "SDK-"
    <<52>>,                           \* "4"
    <<46>>,                           \* "."
    s_dot0,
    <<120>> }                         \* "x"

RECURSIVE Concats(_)
Concats(n) ==
  IF n = 0 THEN {<<>>}
  ELSE LET shorter == Concats(n - 1)
       IN shorter \cup {s \o t : s \in shorter, t \in KeyTokens}

KeyNames == Concats(MaxTokens)

s_sdk_4_0_0 == s_sdk \o <<52>> \o s_dot0 \o s_dot0    \* "sdk-4.0.0"

(***************************************************************************)
(* The filesystem.  A directory is a record: kind says whether the path is *)
(* a directory at all ("nodir"), one opendir cannot open ("noread") or a   *)
(* readable one ("dir"); subs is the set of names of its subdirectories    *)
(* that make_root probes; entries is what readdir returns, in order.  An   *)
(* entry has its name, whether it is a directory, and that directory's own *)
(* subs.                                                                   *)
(***************************************************************************)
PALMDEV_PREFIX == <<47, 112>>       \* "/p"
OTHER_DIR == <<47, 113>>            \* "/q"
Bases == {PALMDEV_PREFIX, OTHER_DIR}

n_sdk_3 == s_sdk \o <<51>>                    \* "sdk-3"
n_sdk_4 == s_sdk \o <<52>>                    \* "sdk-4"
n_sdk_4_0 == s_sdk \o <<52>> \o s_dot0        \* "sdk-4.0"
n_sdk_5 == s_sdk \o <<53>>                    \* "sdk-5"
n_SDK_5_0 == <<83, 68, 75, 45, 53>> \o s_dot0 \* "SDK-5.0"
n_sdk_9 == s_sdk \o <<57>>                    \* "sdk-9"
n_sdk_10 == s_sdk \o <<49, 48>>               \* "sdk-10"
n_doc == <<100, 111, 99>>                     \* "doc"

AllSubs == {s_include, s_Incs, s_lib, s_GCC_Libraries}

DirEntries(names, shapes) ==
  {[d_name |-> n, isdir |-> TRUE, subs |-> s] : n \in names, s \in shapes}

FileEntries(names) ==
  {[d_name |-> n, isdir |-> FALSE, subs |-> {}] : n \in names}

\* the listings of at most n entries with distinct names
RECURSIVE Listings(_, _)
Listings(E, n) ==
  IF n = 0 THEN {<<>>}
  ELSE LET shorter == Listings(E, n - 1)
       IN shorter \cup
          {Append(l, e) : l \in {x \in shorter : Len(x) = n - 1},
                          e \in E}

DistinctNames(l) ==
  \A i, j \in 1..Len(l) : i /= j => l[i].d_name /= l[j].d_name

Directories(E, baseShapes, n) ==
  {[kind |-> k, subs |-> {}, entries |-> <<>>] : k \in {"nodir", "noread"}}
  \cup
  {[kind |-> "dir", subs |-> b, entries |-> l] :
     b \in baseShapes, l \in {x \in Listings(E, n) : DistinctNames(x)}}

(***************************************************************************)
(* Roots (lines 77-116).                                                   *)
(***************************************************************************)
\* utils is_dir, asked of a directory whose subdirectories are subs
is_dir(subs, name) == name \in subs

\* lines 86-106; subs is what is under path.  The code leaves key unset here;
\* nothing reads it before line 188 sets it, and it is NULL until then.
make_root(path, subs) ==
  [prefix |-> path,
   sub |-> [include |-> IF is_dir(subs, s_include) THEN s_include
                        ELSE IF is_dir(subs, s_Incs) THEN s_Incs
                        ELSE NULL,
            lib |-> IF is_dir(subs, s_lib) THEN s_lib
                    ELSE IF is_dir(subs, s_GCC_Libraries) THEN s_GCC_Libraries
                    ELSE NULL],
   key |-> NULL]

\* lines 108-116: the index of the first root of list with that key, 0 for NULL
RECURSIVE find_from(_, _, _)
find_from(list, key, i) ==
  IF i > Len(list) THEN 0
  ELSE IF strcmp(key, list[i].key) = 0 THEN i
  ELSE find_from(list, key, i + 1)

\* find that looks at the head of the list only
find_head(list, key) ==
  IF key /= NULL /\ list /= <<>> /\ strcmp(key, list[1].key) = 0 THEN 1 ELSE 0

find(list, key) == IF key /= NULL THEN find_from(list, key, 1) ELSE 0

\* "%s/%s"
path_join(prefix, name) == prefix \o s_slash \o name

\* scan_entry that keeps a root with libraries when it has no headers
scan_entry_any_sub(list, prefix, e) ==
  IF matches(s_sdk, e.d_name) /\ e.isdir
  THEN LET key == canonical_key(e.d_name)
           overriding_sdk == find(list, key)
           root == make_root(path_join(prefix, e.d_name), e.subs)
       IN IF overriding_sdk /= 0 THEN list
          ELSE IF root.sub.include /= NULL \/ root.sub.lib /= NULL
               THEN <<[root EXCEPT !.key = key]>> \o list
               ELSE list
  ELSE list

\* scan_entry where a later directory takes the place of the root it finds
scan_entry_replace(list, prefix, e) ==
  IF matches(s_sdk, e.d_name) /\ e.isdir
  THEN LET key == canonical_key(e.d_name)
           overriding_sdk == find(list, key)
           root == make_root(path_join(prefix, e.d_name), e.subs)
       IN IF root.sub.include = NULL THEN list
          ELSE IF overriding_sdk /= 0
               THEN [list EXCEPT ![overriding_sdk] = [root EXCEPT !.key = key]]
               ELSE <<[root EXCEPT !.key = key]>> \o list
  ELSE list

\* lines 172-195: one turn of the readdir loop, for entry e of prefix
scan_entry(list, prefix, e) ==
  IF matches(s_sdk, e.d_name) /\ e.isdir
  THEN LET key == canonical_key(e.d_name)
           overriding_sdk == find(list, key)
           root == make_root(path_join(prefix, e.d_name), e.subs)
       IN IF overriding_sdk /= 0 THEN list
          ELSE IF root.sub.include /= NULL
               THEN <<[root EXCEPT !.key = key]>> \o list
               ELSE list
  ELSE list

\* lines 171-195: the readdir loop
RECURSIVE scan_entries(_, _, _)
scan_entries(list, prefix, entries) ==
  IF entries = <<>> THEN list
  ELSE scan_entries(scan_entry(list, prefix, Head(entries)), prefix,
                    Tail(entries))

\* scan_generic that pushes the root at the head of the list
scan_generic_push(list, prefix, subs) ==
  LET root == make_root(prefix, subs)
  IN IF root.sub.include /= NULL \/ root.sub.lib /= NULL
     THEN <<make_root(prefix, subs)>> \o list
     ELSE list

\* lines 202-213: the generic root of prefix, appended at last_generic_root
scan_generic(list, prefix, subs) ==
  LET root == make_root(prefix, subs)
  IN IF root.sub.include /= NULL \/ root.sub.lib /= NULL
     THEN Append(list, make_root(prefix, subs))
     ELSE list

\* lines 157-218, the state change of one call
analyze_palmdev_tree(prefix) ==
  LET dir == fs[prefix]
  IN IF dir.kind = "dir"
     THEN /\ sdk_root_list' = scan_entries(sdk_root_list, prefix, dir.entries)
          /\ generic_root_list' =
               scan_generic(generic_root_list, prefix, dir.subs)
     ELSE UNCHANGED <<sdk_root_list, generic_root_list>>

(***************************************************************************)
(* The specs text (lines 221-289), as a sequence of tokens                 *)
(*   block    "*<spec>_sdk_<key>:\n"                                       *)
(*   opt      " <option><dir, white space escaped>"                        *)
(*   endblock "\n\n"                                                       *)
(*   main     "*<spec>:\n+ %{!palmos-none:"                                *)
(*   ref      " %{<text>:%(<spec>_sdk_<key>)}"                             *)
(*   default  " %{!palmos*: %(<spec>_sdk_<key>)}"                          *)
(*   endmain  "}\n\n"                                                      *)
(***************************************************************************)
Token(t, sp, key, text) == [t |-> t, spec |-> sp, key |-> key, text |-> text]

\* line 221
spec == [include |-> "cpp", lib |-> "link"]

\* line 222: "-isystem " and "-L"
option == [include |-> <<45, 105, 115, 121, 115, 116, 101, 109, 32>>,
           lib |-> <<45, 76>>]

\* lines 236-240: a backslash before every white space character
RECURSIVE escape(_)
escape(s) ==
  IF s = <<>> THEN <<>>
  ELSE (IF isspace(Head(s)) THEN <<92, Head(s)>> ELSE <<Head(s)>>)
       \o escape(Tail(s))

\* utils opentree/readtree (DIRS): the directories at and below path; the
\* filesystem of this model goes no deeper than path itself
readtree(path) == <<path>>

RECURSIVE write_dirs(_, _)
write_dirs(dirs, kind) ==
  IF dirs = <<>> THEN <<>>
  ELSE <<Token("opt", spec[kind], NULL, option[kind] \o escape(Head(dirs)))>>
       \o write_dirs(Tail(dirs), kind)

\* lines 224-245; target is NULL or a target name
write_dirtree(root, target, kind) ==
  IF root.sub[kind] /= NULL
  THEN LET target_for_lib == IF target /= NULL THEN s_m68k ELSE <<>>
       IN write_dirs(readtree(root.prefix \o s_slash \o root.sub[kind]
                              \o target_for_lib), kind)
  ELSE <<>>

\* lines 247-253
write_sdk_spec(sdk, target, kind) ==
  <<Token("block", spec[kind], sdk.key, <<>>)>>
  \o write_dirtree(sdk, target, kind)
  \o <<Token("endblock", spec[kind], sdk.key, <<>>)>>

\* lines 262-263
RECURSIVE write_generic(_, _, _)
write_generic(list, target, kind) ==
  IF list = <<>> THEN <<>>
  ELSE write_dirtree(Head(list), target, kind)
       \o write_generic(Tail(list), target, kind)

\* lines 266-269: the guarded references to one SDK
write_sdk_refs(sdk, kind) ==
  <<Token("ref", spec[kind], sdk.key, s_palmos \o sdk.key)>>
  \o (IF strspn(sdk.key, s_digits) = Len(sdk.key)
      THEN <<Token("ref", spec[kind], sdk.key, s_palmos \o sdk.key \o s_dot0)>>
      ELSE <<>>)

\* lines 265-270
RECURSIVE write_refs(_, _)
write_refs(list, kind) ==
  IF list = <<>> THEN <<>>
  ELSE write_sdk_refs(Head(list), kind) \o write_refs(Tail(list), kind)

\* write_default that names the head of the list
write_default_head(sdks, dflt, kind) ==
  IF dflt /= 0
  THEN <<Token("default", spec[kind], sdks[1].key, <<>>)>>
  ELSE <<>>

\* lines 272-273; dflt is an index into sdks, 0 for NULL
write_default(sdks, dflt, kind) ==
  IF dflt /= 0
  THEN <<Token("default", spec[kind], sdks[dflt].key, <<>>)>>
  ELSE <<>>

\* lines 255-276
write_main_spec(generics, sdks, target, dflt, kind) ==
  <<Token("main", spec[kind], NULL, <<>>)>>
  \o write_generic(generics, target, kind)
  \o write_refs(sdks, kind)
  \o write_default(sdks, dflt, kind)
  \o <<Token("endmain", spec[kind], NULL, <<>>)>>

\* lines 282-285
RECURSIVE write_sdk_specs(_, _)
write_sdk_specs(list, target) ==
  IF list = <<>> THEN <<>>
  ELSE write_sdk_spec(Head(list), NULL, "include")
       \o write_sdk_spec(Head(list), target, "lib")
       \o write_sdk_specs(Tail(list), target)

\* write_specs with the umbrella blocks first
write_specs_main_first(generics, sdks, target, dflt) ==
  write_main_spec(generics, sdks, NULL, dflt, "include")
  \o write_main_spec(generics, sdks, target, dflt, "lib")
  \o write_sdk_specs(sdks, target)

\* lines 278-289
write_specs(generics, sdks, target, dflt) ==
  write_sdk_specs(sdks, target)
  \o write_main_spec(generics, sdks, NULL, dflt, "include")
  \o write_main_spec(generics, sdks, target, dflt, "lib")

(***************************************************************************)
(* Default-SDK selection (main, lines 416-435).                            *)
(***************************************************************************)
\* lines 427-430: the index of the root with the alphabetically highest key
RECURSIVE highest_from(_, _, _)
highest_from(list, best, i) ==
  IF i > Len(list) THEN best
  ELSE highest_from(list,
                    IF strcmp(list[i].key, list[best].key) > 0 THEN i ELSE best,
                    i + 1)

\* the highest key by length, then by bytes: the order of version numbers
RECURSIVE highest_numeric_from(_, _, _)
highest_numeric_from(list, best, i) ==
  IF i > Len(list) THEN best
  ELSE highest_numeric_from(
         list,
         IF \/ Len(list[i].key) > Len(list[best].key)
            \/ /\ Len(list[i].key) = Len(list[best].key)
               /\ strcmp(list[i].key, list[best].key) > 0
         THEN i ELSE best,
         i + 1)

highest_numeric(list) == highest_numeric_from(list, 1, 1)

highest(list) == highest_from(list, 1, 1)

\* lines 416-418: the root asked for with -d, 0 when none was asked for or found
requested(list, name) ==
  IF name /= NULL THEN find(list, canonical_key(name)) ELSE 0

\* select_default that takes the highest key whatever was asked for
select_default_highest(list, name) ==
  IF list /= <<>> THEN highest(list) ELSE 0

\* lines 416-431
select_default(list, name) ==
  LET asked == requested(list, name)
  IN IF asked = 0 /\ list /= <<>> THEN highest(list) ELSE asked

(***************************************************************************)
(* main's else-branch (lines 404-475), one action per step.  What the      *)
(* report prints on stdout is left out: it changes nothing the program     *)
(* reads afterwards.                                                       *)
(***************************************************************************)
Warning(w, arg) == [w |-> w, arg |-> arg]

\* the names -d may be given: none, "sdk-3", "4.0"
DefaultNames == {NULL, n_sdk_3, <<52>> \o s_dot0}

ShapeFull == AllSubs
ShapeLibOnly == {s_lib}
ShapeLegacy == {s_Incs, s_GCC_Libraries}

\* Spec: SDK directories that share a key, with and without headers
ScanEntries ==
  DirEntries({n_sdk_5}, {ShapeFull, ShapeLibOnly})
  \cup DirEntries({n_SDK_5_0}, {ShapeLegacy})
  \cup DirEntries({n_sdk_3}, {ShapeFull})

ScanDirectories ==
  Directories(ScanEntries, {{}, ShapeLegacy}, MaxEntries)

\* SpecGeneric: every shape of base directory, few entries
GenericEntries ==
  DirEntries({n_doc}, {ShapeFull}) \cup DirEntries({n_sdk_5}, {ShapeLegacy})
  \cup FileEntries({n_sdk_5})

GenericDirectories ==
  Directories(GenericEntries,
              {{}, {s_include}, {s_Incs}, {s_lib}, {s_GCC_Libraries},
               {s_include, s_Incs}, AllSubs},
              MaxEntries)

\* SpecDefault: SDKs with distinct keys, in every order
DefaultEntries ==
  DirEntries({n_sdk_3, n_sdk_4, n_sdk_9, n_sdk_10}, {ShapeFull})

DefaultDirectories ==
  Directories(DefaultEntries, {{s_include}}, MaxEntries)

InitWith(dirs) ==
  /\ fs \in [Bases -> dirs]
  /\ pc = "start"
  /\ calls = <<>>
  /\ nargs = 0
  /\ sdk_root_list = <<>>
  /\ generic_root_list = <<>>
  /\ default_sdk_name = NULL
  /\ default_sdk = 0
  /\ warned = <<>>
  /\ out = <<>>
  /\ kname = <<>>
  /\ khist = <<>>

Init == InitWith(ScanDirectories)

InitGeneric == InitWith(GenericDirectories)

InitDefault == InitWith(DefaultDirectories)

\* line 409
AnalyzeDefault ==
  /\ pc = "start"
  /\ analyze_palmdev_tree(PALMDEV_PREFIX)
  /\ calls' = Append(calls, PALMDEV_PREFIX)
  /\ pc' = "args"
  /\ UNCHANGED <<fs, nargs, default_sdk_name, default_sdk, warned, out,
                 kname, khist>>

\* lines 410-414, one turn of the loop over the command-line directories
AnalyzeArg ==
  /\ pc = "args"
  /\ nargs < MaxArgs
  /\ \E arg \in Bases :
       IF fs[arg].kind /= "nodir"
       THEN /\ analyze_palmdev_tree(arg)
            /\ calls' = Append(calls, arg)
            /\ UNCHANGED warned
       ELSE /\ warned' = Append(warned, Warning("can't open", arg))
            /\ UNCHANGED <<sdk_root_list, generic_root_list, calls>>
  /\ nargs' = nargs + 1
  /\ UNCHANGED <<fs, pc, default_sdk_name, default_sdk, out, kname, khist>>

\* lines 416-435
SelectDefault ==
  /\ pc = "args"
  /\ \E name \in DefaultNames :
       /\ default_sdk_name' = name
       /\ default_sdk' = select_default(sdk_root_list, name)
       /\ warned' = IF name /= NULL /\ requested(sdk_root_list, name) = 0
                    THEN Append(warned, Warning("SDK not found", name))
                    ELSE warned
  /\ pc' = "write"
  /\ UNCHANGED <<fs, calls, nargs, sdk_root_list, generic_root_list, out,
                 kname, khist>>

\* the target name handed to write_specs: dump_target or TARGET_ALIAS
TARGET == <<116>>       \* "t"

\* lines 437-452: write_specs to stdout or to the opened specs file
WriteSpecs ==
  /\ pc = "write"
  /\ out' = write_specs(generic_root_list, sdk_root_list, TARGET, default_sdk)
  /\ pc' = "done"
  /\ UNCHANGED <<fs, calls, nargs, sdk_root_list, generic_root_list,
                 default_sdk_name, default_sdk, warned, kname, khist>>

Next == AnalyzeDefault \/ AnalyzeArg \/ SelectDefault \/ WriteSpecs

Spec == Init /\ [][Next]_vars

SpecGeneric == InitGeneric /\ [][Next]_vars

SpecDefault == InitDefault /\ [][Next]_vars

(***************************************************************************)
(* canonical_key as a pure function.                                       *)
(***************************************************************************)
InitKey ==
  /\ kname \in KeyNames
  /\ khist = <<kname>>
  /\ fs = [b \in Bases |-> [kind |-> "nodir", subs |-> {}, entries |-> <<>>]]
  /\ pc = "key"
  /\ calls = <<>>
  /\ nargs = 0
  /\ sdk_root_list = <<>>
  /\ generic_root_list = <<>>
  /\ default_sdk_name = NULL
  /\ default_sdk = 0
  /\ warned = <<>>
  /\ out = <<>>

\* canonical_key applied to the last result
ApplyKey ==
  /\ pc = "key"
  /\ Len(khist) < 3
  /\ khist' = Append(khist, canonical_key(khist[Len(khist)]))
  /\ UNCHANGED <<fs, pc, calls, nargs, sdk_root_list, generic_root_list,
                 default_sdk_name, default_sdk, warned, out, kname>>

NextKey == ApplyKey

SpecKey == InitKey /\ [][NextKey]_vars

(***************************************************************************)
(* Properties of canonical_key, stated for SpecKey.                        *)
(***************************************************************************)
EndsWith(s, t) ==
  Len(s) >= Len(t) /\ SubSeq(s, Len(s) - Len(t) + 1, Len(s)) = t

StartsWithFolded(s, lower) ==
  /\ Len(s) >= Len(lower)
  /\ \A i \in 1..Len(lower) :
       s[i] = lower[i] \/ (s[i] >= 65 /\ s[i] <= 90 /\ s[i] + 32 = lower[i])

\* a key canonical_key would change again
Reducible(k) ==
  \/ StartsWithFolded(k, s_palmos)
  \/ StartsWithFolded(k, s_sdk)
  \/ EndsWith(k, s_dot0)

\* C1 as claimed: canonical_key(canonical_key(d)) = canonical_key(d) for
\* every directory name d.
C1_Idempotent == Len(khist) = 3 => khist[3] = khist[2]

\* C1 as amended: canonical_key(canonical_key(d)) = canonical_key(d) exactly
\* when canonical_key(d) neither begins with "palmos" or "sdk-" (in any letter
\* case) nor ends in ".0"; otherwise the second application shortens the key
\* (sdk-4.0.0 gives 4.0, then 4; sdk-sdk-4 gives sdk-4, then 4).
C1_IdempotentOnIrreducible ==
  Len(khist) = 3 =>
    /\ (khist[3] = khist[2]) <=> ~Reducible(khist[2])
    /\ Reducible(khist[2]) => Len(khist[3]) < Len(khist[2])

C1_Witness ==
  /\ Len(khist) = 3
  /\ kname = <<80, 97, 108, 109, 79, 83>> \o <<83, 68, 75, 45>> \o <<52>> \o s_dot0
  /\ khist[2] = <<52>>
  /\ khist[3] = <<52>>

\* C2 as claimed: canonical_key("sdk-4.0.0") returns "4.0.0"; a name ending
\* in ".0.0" is returned with nothing removed.
C2_DoubleDot0Kept ==
  Len(khist) >= 2 =>
    /\ kname = s_sdk_4_0_0 => khist[2] = <<52>> \o s_dot0 \o s_dot0
    /\ EndsWith(kname, s_dot0 \o s_dot0) => EndsWith(khist[2], s_dot0 \o s_dot0)

\* C2 as amended: canonical_key("sdk-4.0.0") returns "4.0": exactly one
\* trailing ".0" is removed from every name that ends in ".0", a name ending
\* in ".0.0" included, and nothing is removed from the end of any other name.
C2_OneDot0Removed ==
  Len(khist) >= 2 =>
    /\ kname = s_sdk_4_0_0 => khist[2] = <<52>> \o s_dot0
    /\ EndsWith(kname, s_dot0) => EndsWith(kname, khist[2] \o s_dot0)
    /\ ~EndsWith(kname, s_dot0) => EndsWith(kname, khist[2])

C2_Witness ==
  /\ Len(khist) >= 2
  /\ kname = s_sdk_4_0_0
  /\ khist[2] = <<52>> \o s_dot0

(***************************************************************************)
(* Properties of the root lists and of the specs text.                     *)
(***************************************************************************)
Range(seq) == {seq[i] : i \in 1..Len(seq)}

Contains(text, piece) ==
  \E i \in 1..(Len(text) - Len(piece) + 1) :
    SubSeq(text, i, i + Len(piece) - 1) = piece

Keys(list) == {list[i].key : i \in 1..Len(list)}

k_3 == <<51>>         \* "3"
k_4 == <<52>>         \* "4"
k_5 == <<53>>         \* "5"
k_9 == <<57>>         \* "9"
k_10 == <<49, 48>>    \* "10"

\* base directory b is readable and has a directory entry of that name
HasSdkDir(b, name) ==
  /\ fs[b].kind = "dir"
  /\ \E i \in 1..Len(fs[b].entries) :
       fs[b].entries[i].d_name = name /\ fs[b].entries[i].isdir

\* ... one that has a headers subdirectory
HasSdkDirWithHeaders(b, name) ==
  /\ fs[b].kind = "dir"
  /\ \E i \in 1..Len(fs[b].entries) :
       /\ fs[b].entries[i].d_name = name
       /\ fs[b].entries[i].isdir
       /\ fs[b].entries[i].subs \cap {s_include, s_Incs} /= {}

Under(path, b) ==
  Len(path) > Len(b) + 1 /\ SubSeq(path, 1, Len(b) + 1) = b \o s_slash

\* both base directories were analysed, PALMDEV_PREFIX first
BothScanned == calls /= <<>> /\ OTHER_DIR \in Range(calls)

NoOptionOf(path) ==
  \A i \in 1..Len(out) : out[i].t = "opt" => ~Contains(out[i].text, path)

\* C3 as claimed: when two base directories that each contain a directory
\* sdk-5 are analysed in sequence, the root stored under key "5" is the one
\* of the first, and the second's sdk-5 is in no -isystem or -L option.
C3_FirstBaseWins ==
  (BothScanned /\ HasSdkDir(PALMDEV_PREFIX, n_sdk_5)
               /\ HasSdkDir(OTHER_DIR, n_sdk_5)) =>
    /\ \A i \in 1..Len(sdk_root_list) :
         sdk_root_list[i].key = k_5 =>
           Under(sdk_root_list[i].prefix, PALMDEV_PREFIX)
    /\ NoOptionOf(path_join(OTHER_DIR, n_sdk_5))

\* C3 as amended: the same, provided the first base's sdk-5 has a headers
\* subdirectory (include or Incs): then a root is stored under key "5", every
\* root under that key is of the first base, and the second base's sdk-5 is in
\* no -isystem or -L option.
C3_FirstBaseWinsWithHeaders ==
  (BothScanned /\ HasSdkDirWithHeaders(PALMDEV_PREFIX, n_sdk_5)
               /\ HasSdkDir(OTHER_DIR, n_sdk_5)) =>
    /\ k_5 \in Keys(sdk_root_list)
    /\ \A i \in 1..Len(sdk_root_list) :
         sdk_root_list[i].key = k_5 =>
           Under(sdk_root_list[i].prefix, PALMDEV_PREFIX)
    /\ NoOptionOf(path_join(OTHER_DIR, n_sdk_5))

C3_Witness ==
  /\ pc = "done"
  /\ BothScanned
  /\ HasSdkDirWithHeaders(PALMDEV_PREFIX, n_sdk_5)
  /\ HasSdkDirWithHeaders(OTHER_DIR, n_sdk_5)
  /\ \E i \in 1..Len(out) :
       out[i].t = "opt" /\ Contains(out[i].text, path_join(PALMDEV_PREFIX, n_sdk_5))

\* C4: every root of sdk_root_list has a headers subdirectory and a key, and
\* no sdk-* directory without include and Incs is in the list, whatever else
\* it has.
C4_SdkRootsHaveHeaders ==
  /\ \A i \in 1..Len(sdk_root_list) :
       /\ sdk_root_list[i].sub.include \in {s_include, s_Incs}
       /\ sdk_root_list[i].key /= NULL
  /\ \A b \in Bases : \A j \in 1..Len(fs[b].entries) :
       fs[b].entries[j].subs \cap {s_include, s_Incs} = {} =>
         \A i \in 1..Len(sdk_root_list) :
           sdk_root_list[i].prefix /= path_join(b, fs[b].entries[j].d_name)

C4_Witness ==
  /\ pc = "args"
  /\ fs[PALMDEV_PREFIX].kind = "dir"
  /\ Len(fs[PALMDEV_PREFIX].entries) = 2
  /\ fs[PALMDEV_PREFIX].entries[1] =
       [d_name |-> n_sdk_5, isdir |-> TRUE, subs |-> ShapeLibOnly]
  /\ Len(sdk_root_list) = 1
  /\ sdk_root_list[1].key = k_3

UniqueKeys(list) ==
  \A i, j \in 1..Len(list) : list[i].key = list[j].key => i = j

\* C8: no two roots of sdk_root_list have equal keys, and every step keeps
\* each stored root, the only one under its key.
C8_FirstKeptUnderKey ==
  /\ [](UniqueKeys(sdk_root_list))
  /\ [][\A i \in 1..Len(sdk_root_list) :
          \E j \in 1..Len(sdk_root_list') :
            /\ sdk_root_list'[j] = sdk_root_list[i]
            /\ \A k \in 1..Len(sdk_root_list') :
                 sdk_root_list'[k].key = sdk_root_list[i].key => k = j]_vars

C8_Witness ==
  /\ pc = "args"
  /\ fs[PALMDEV_PREFIX].kind = "dir"
  /\ Len(fs[PALMDEV_PREFIX].entries) = 2
  /\ fs[PALMDEV_PREFIX].entries[1].d_name = n_SDK_5_0
  /\ fs[PALMDEV_PREFIX].entries[2] =
       [d_name |-> n_sdk_5, isdir |-> TRUE, subs |-> ShapeFull]
  /\ Len(sdk_root_list) = 1
  /\ sdk_root_list[1].prefix = path_join(PALMDEV_PREFIX, n_SDK_5_0)
  /\ sdk_root_list[1].key = k_5

\* C10: every reference of an umbrella block, the default one included,
\* names a block written earlier in the same text, and the default SDK is a
\* root of sdk_root_list.
C10_ReferencesDefined ==
  /\ default_sdk \in 0..Len(sdk_root_list)
  /\ \A i \in 1..Len(out) :
       out[i].t \in {"ref", "default"} =>
         \E j \in 1..(i - 1) :
           /\ out[j].t = "block"
           /\ out[j].spec = out[i].spec
           /\ out[j].key = out[i].key

C10_Witness ==
  /\ pc = "done"
  /\ Len(sdk_root_list) = 2
  /\ default_sdk = 2
  /\ \E i \in 1..Len(out) : out[i].t = "default" /\ out[i].spec = "link"

\* the prefixes of calls that opendir opens and that have headers or libraries
RECURSIVE GenericCalls(_)
GenericCalls(cs) ==
  IF cs = <<>> THEN <<>>
  ELSE (IF /\ fs[Head(cs)].kind = "dir"
           /\ fs[Head(cs)].subs \cap AllSubs /= {}
        THEN <<Head(cs)>> ELSE <<>>)
       \o GenericCalls(Tail(cs))

\* the tokens of the umbrella block of sp, in order
Umbrella(sp) ==
  LET first == CHOOSE i \in 1..Len(out) : out[i].t = "main" /\ out[i].spec = sp
      last == CHOOSE i \in 1..Len(out) : out[i].t = "endmain" /\ out[i].spec = sp
  IN SubSeq(out, first, last)

IsOpt(tok) == tok.t = "opt"

\* the directory a generic root of base b contributes to the umbrella block of
\* the headers, none when b has no headers subdirectory
RECURSIVE HeaderDirs(_)
HeaderDirs(bs) ==
  IF bs = <<>> THEN <<>>
  ELSE (IF s_include \in fs[Head(bs)].subs
        THEN <<Head(bs) \o s_slash \o s_include>>
        ELSE IF s_Incs \in fs[Head(bs)].subs
        THEN <<Head(bs) \o s_slash \o s_Incs>>
        ELSE <<>>)
       \o HeaderDirs(Tail(bs))

\* ... and to the umbrella block of the libraries
RECURSIVE LibraryDirs(_)
LibraryDirs(bs) ==
  IF bs = <<>> THEN <<>>
  ELSE (IF s_lib \in fs[Head(bs)].subs
        THEN <<Head(bs) \o s_slash \o s_lib \o s_m68k>>
        ELSE IF s_GCC_Libraries \in fs[Head(bs)].subs
        THEN <<Head(bs) \o <<47, 71, 67, 67, 92, 32>>
               \o SubSeq(s_GCC_Libraries, 5, 13) \o s_m68k>>
        ELSE <<>>)
       \o LibraryDirs(Tail(bs))

OptionDirs(toks, opt) ==
  [i \in 1..Len(toks) |-> SubSeq(toks[i].text, Len(opt) + 1, Len(toks[i].text))]

\* C7: generic_root_list is the subsequence of the analysed base directories,
\* in call order, that opendir opens and that have headers or libraries; each
\* of its roots has one of the two, and the umbrella blocks list their
\* directories in that order.
C7_GenericRootsInScanOrder ==
  /\ [i \in 1..Len(generic_root_list) |-> generic_root_list[i].prefix]
       = GenericCalls(calls)
  /\ \A i \in 1..Len(generic_root_list) :
       \/ generic_root_list[i].sub.include /= NULL
       \/ generic_root_list[i].sub.lib /= NULL
  /\ pc = "done" =>
       /\ OptionDirs(SelectSeq(Umbrella("cpp"), IsOpt), option.include)
            = HeaderDirs(GenericCalls(calls))
       /\ OptionDirs(SelectSeq(Umbrella("link"), IsOpt), option.lib)
            = LibraryDirs(GenericCalls(calls))

C7_Witness ==
  /\ pc = "done"
  /\ calls = <<PALMDEV_PREFIX, OTHER_DIR>>
  /\ fs[PALMDEV_PREFIX].subs = {s_GCC_Libraries}
  /\ fs[OTHER_DIR].subs = AllSubs
  /\ Len(generic_root_list) = 2
  /\ Len(SelectSeq(Umbrella("link"), IsOpt)) = 2
  /\ Len(SelectSeq(Umbrella("cpp"), IsOpt)) = 1

(***************************************************************************)
(* Properties of the default SDK, stated for SpecDefault.                  *)
(***************************************************************************)
\* a is at most b in the order of the bytes
BytesLE(a, b) ==
  \/ a = b
  \/ \E k \in 1..Len(b) :
       /\ \A j \in 1..(k - 1) : j <= Len(a) /\ a[j] = b[j]
       /\ k > Len(a) \/ a[k] < b[k]

Selected == pc \in {"write", "done"}

\* C5: with no -d name and SDKs found, the default is the root whose key is
\* greatest byte-wise, wherever it is in the list; of "3", "10", "9" it is "9".
C5_DefaultIsGreatestKey ==
  (Selected /\ default_sdk_name = NULL /\ sdk_root_list /= <<>>) =>
    /\ default_sdk \in 1..Len(sdk_root_list)
    /\ \A i \in 1..Len(sdk_root_list) :
         BytesLE(sdk_root_list[i].key, sdk_root_list[default_sdk].key)
    /\ Keys(sdk_root_list) = {k_3, k_10, k_9} =>
         sdk_root_list[default_sdk].key = k_9

C5_Witness ==
  /\ Selected
  /\ default_sdk_name = NULL
  /\ Keys(sdk_root_list) = {k_3, k_10, k_9}
  /\ sdk_root_list[3].key = k_9
  /\ default_sdk = 3

Count(toks, t, sp, key, text) ==
  Cardinality({i \in 1..Len(toks) : toks[i] = Token(t, sp, key, text)})

Pos(toks, t, sp, key, text) ==
  CHOOSE i \in 1..Len(toks) : toks[i] = Token(t, sp, key, text)

KeysThreeFourDefaultFour ==
  /\ pc = "done"
  /\ Keys(sdk_root_list) = {k_3, k_4}
  /\ default_sdk /= 0
  /\ sdk_root_list[default_sdk].key = k_4

\* C6 as claimed: for keys {"3","4"} and default "4" the umbrella block *cpp:
\* has one reference to cpp_sdk_3 under the flag palmos3, one to cpp_sdk_4
\* under palmos4 and one default reference to cpp_sdk_4, in that order.
C6_ReferencesInKeyOrder ==
  KeysThreeFourDefaultFour =>
    LET u == Umbrella("cpp")
    IN /\ Count(u, "ref", "cpp", k_3, s_palmos \o k_3) = 1
       /\ Count(u, "ref", "cpp", k_4, s_palmos \o k_4) = 1
       /\ Count(u, "default", "cpp", k_4, <<>>) = 1
       /\ Pos(u, "ref", "cpp", k_3, s_palmos \o k_3)
            < Pos(u, "ref", "cpp", k_4, s_palmos \o k_4)
       /\ Pos(u, "ref", "cpp", k_4, s_palmos \o k_4)
            < Pos(u, "default", "cpp", k_4, <<>>)

\* C6 as amended: the block has one reference to cpp_sdk_3 under palmos3 and
\* one to cpp_sdk_4 under palmos4, each followed at once by its duplicate
\* under palmos3.0 and palmos4.0, the two SDKs in the order of sdk_root_list
\* (the reverse of the order they were found in, so cpp_sdk_4 comes first
\* when sdk-3 was read first), and one default reference to cpp_sdk_4 after
\* them all.
C6_ReferencesInListOrder ==
  KeysThreeFourDefaultFour =>
    LET u == Umbrella("cpp")
        a == sdk_root_list[1].key
        b == sdk_root_list[2].key
    IN /\ Len(sdk_root_list) = 2
       /\ Count(u, "ref", "cpp", k_3, s_palmos \o k_3) = 1
       /\ Count(u, "ref", "cpp", k_4, s_palmos \o k_4) = 1
       /\ Count(u, "default", "cpp", k_4, <<>>) = 1
       /\ \E i \in 1..Len(u) :
            SubSeq(u, i, i + 4) =
              << Token("ref", "cpp", a, s_palmos \o a),
                 Token("ref", "cpp", a, s_palmos \o a \o s_dot0),
                 Token("ref", "cpp", b, s_palmos \o b),
                 Token("ref", "cpp", b, s_palmos \o b \o s_dot0),
                 Token("default", "cpp", k_4, <<>>) >>

C6_Witness ==
  /\ KeysThreeFourDefaultFour
  /\ sdk_root_list[1].key = k_4
  /\ Pos(Umbrella("cpp"), "ref", "cpp", k_4, s_palmos \o k_4)
       < Pos(Umbrella("cpp"), "ref", "cpp", k_3, s_palmos \o k_3)

\* the key of the -d names of DefaultNames: "sdk-3" asks for "3", "4.0" for "4"
AskedKey == IF default_sdk_name = n_sdk_3 THEN k_3 ELSE k_4

Greatest(i) ==
  \A j \in 1..Len(sdk_root_list) :
    BytesLE(sdk_root_list[j].key, sdk_root_list[i].key)

NotFoundWarned ==
  \E i \in 1..Len(warned) :
    warned[i] = Warning("SDK not found", default_sdk_name)

\* C9: a -d name whose key is in sdk_root_list makes that root the default,
\* greater keys or not; one whose key is not gets a warning and the root of
\* the greatest key; with an empty list the default is null and no default
\* reference is written.
C9_RequestedDefault ==
  Selected =>
    /\ (default_sdk_name /= NULL /\ AskedKey \in Keys(sdk_root_list)) =>
         /\ default_sdk \in 1..Len(sdk_root_list)
         /\ sdk_root_list[default_sdk].key = AskedKey
         /\ ~NotFoundWarned
    /\ (default_sdk_name /= NULL /\ AskedKey \notin Keys(sdk_root_list)) =>
         /\ NotFoundWarned
         /\ sdk_root_list /= <<>> =>
              default_sdk \in 1..Len(sdk_root_list) /\ Greatest(default_sdk)
    /\ sdk_root_list = <<>> =>
         /\ default_sdk = 0
         /\ \A i \in 1..Len(out) : out[i].t /= "default"

C9_Witness ==
  /\ pc = "done"
  /\ default_sdk_name = n_sdk_3
  /\ Keys(sdk_root_list) = {k_3, k_9, k_10}
  /\ default_sdk /= 0
  /\ sdk_root_list[default_sdk].key = k_3
  /\ \E i \in 1..Len(out) : out[i] = Token("default", "link", k_3, <<>>)

====
